---- MODULE Spec2Model ----
(***************************************************************************)
(* Model of src/src/router.ts: receiveRequest, the SNS notification router *)
(* of drs-listener.  A dispatch call hands the envelope to the validator;  *)
(* the validator's callback (one run to completion on the event loop)      *)
(* confirms a subscription, or parses, unwraps, classifies and dispatches  *)
(* the payload to one handler of the caller's handler set.                 *)
(***************************************************************************)
EXTENDS Integers, Sequences, FiniteSets, TLC

\* Number of dispatch calls that may be in flight together.
NumCalls == 2

Calls == 1..NumCalls

--------------------------------------------------------------------------
(* JavaScript values, as far as the router reads them. *)

Undefined == [t |-> "undefined"]
Null == [t |-> "null"]
Str(s) == [t |-> "string", v |-> s]
Num(n) == [t |-> "number", v |-> n]
Arr(s) == [t |-> "array", v |-> s]
\* f is a function from property names to values
Obj(f) == [t |-> "object", v |-> f]

\* if(x), x ? a : b, x && y
Truthy(x) ==
  CASE x.t \in {"undefined", "null"} -> FALSE
    [] x.t = "string" -> x.v # ""
    [] x.t = "number" -> x.v # 0
    [] OTHER -> TRUE

\* reading a property of x throws a TypeError
Faults(x) == x.t \in {"undefined", "null"}

\* x.k for an x on which the read does not throw
Get(x, k) == IF x.t = "object" /\ k \in DOMAIN x.v THEN x.v[k] ELSE Undefined

\* x.k1.k2...: the value read, or the TypeError of a read through
\* undefined or null
RECURSIVE Path(_, _)
Path(x, ks) ==
  IF ks = <<>> THEN [fault |-> FALSE, val |-> x]
  ELSE IF Faults(x) THEN [fault |-> TRUE, val |-> Undefined]
  ELSE Path(Get(x, Head(ks)), Tail(ks))

\* a && a.k, as the unwrapper's conditions use it
AndGet(x, a, k) == IF Truthy(Get(x, a)) THEN Get(Get(x, a), k) ELSE Get(x, a)

--------------------------------------------------------------------------
(* The program's constants. *)

knownMessageTypes ==
  << "DeviceDeregisteredNotification",
     "DeviceRegisteredNotification",
     "ItemShippedNotification",
     "OrderCancelledNotification",
     "OrderPlacedNotification",
     "SubscriptionChangedNotification" >>

\* the membership test written as indexOf(x) === 0
NotKnownIndexZero(x) == x = Str(knownMessageTypes[1])

\* knownMessageTypes.indexOf(x) === -1
NotKnown(x) ==
  ~ \E i \in 1..Len(knownMessageTypes) : x = Str(knownMessageTypes[i])

errorCodes ==
  [ invalid_json |-> "we could not parse the json of the message",
    invalid_signature |-> "invalid signature for the incoming message",
    missing_handler |-> "missing the handler to handle that notification",
    not_drs |-> "this is not a DRS message, we placed it back into the raw property",
    unknown_message |-> "unknown message type received",
    invalid_subscription_request |->
      "could not confirm subscription due to malformed object or missing url",
    invalid_subscription_request_response |->
      "could not confirm the subscription due to a remote error" ]

\* the module-level record every missing_handler report reuses
missingHandlerErrorInit ==
  [ code |-> "missing_handler",
    reason |-> errorCodes["missing_handler"],
    raw |-> [handler |-> ""] ]

\* the status code of a confirmed subscription
HttpOk == 200

\* the optional members of IHandlers that receiveRequest reads
DomainHandlers ==
  { "onDeviceDeregistered", "onDeviceRegistered", "onItemShippedNotification",
    "onOrderCancelled", "onOrderPlaced", "onSubscriptionChanged" }

OptionalHandlers == DomainHandlers \cup {"onNonDRSMessage"}

--------------------------------------------------------------------------
(* Envelopes and payload texts. *)

\* The Message string of an envelope: a JSON text, known by the value it
\* denotes, or a text that is no JSON.
Json(v) == [wellFormed |-> TRUE, value |-> v]
Malformed(s) == [wellFormed |-> FALSE, chars |-> s]

\* JSON.parse(text): the value, or the SyntaxError it throws
JSONparse(text) ==
  IF text.wellFormed THEN [threw |-> FALSE, val |-> text.value]
  ELSE [threw |-> TRUE, val |-> Str("SyntaxError")]

\* IBodySNS, the fields the router reads
Envelope(type, url, text) == [Type |-> type, SubscribeURL |-> url, Message |-> text]

--------------------------------------------------------------------------
(* What one run of a callback does: the invocations it makes in order     *)
(* (members of the handler set, and the outbound request), how it ends,   *)
(* the pipeline stages it went through and the shared record it leaves.   *)

Invoke(h, args) == [h |-> h, args |-> args]

Outcome(end, calls, stages, tmpl) ==
  [end |-> end, calls |-> calls, stages |-> stages, tmpl |-> tmpl]

\* an IError built for this report alone
Fresh(code, raw) ==
  [shared |-> FALSE,
   rec |-> [code |-> code, reason |-> errorCodes[code], raw |-> raw]]

\* return handlers.onError(<a record built here>)
Report(code, raw, stages, tmpl) ==
  Outcome("returned", <<Invoke("onError", <<Fresh(code, raw)>>)>>, stages, tmpl)

\* an uncaught TypeError ends the run
Throw(stages, tmpl) == Outcome("threw", <<>>, stages, tmpl)

\* missingHandlerError.raw.handler = name; return handlers.onError(missingHandlerError)
\* The callback receives the shared record itself; rec is what it holds
\* at the time of the call.
missingHandler(name, stages, tmpl) ==
  LET t2 == [tmpl EXCEPT !.raw.handler = name]
  IN Outcome("returned",
             <<Invoke("onError", <<[shared |-> TRUE, rec |-> t2]>>)>>, stages, t2)

\* x ? x : ""
OrEmpty(x) == IF Truthy(x) THEN x ELSE Str("")

orderInfoShipped(oi) ==
  Obj([instanceId |-> OrEmpty(Get(oi, "instanceId")),
       slotId |-> OrEmpty(Get(oi, "slotId")),
       productInfo |-> Get(oi, "productInfo")])

\* the literal of the cancellation branch with the input's productInfo
orderInfoCancelledKeepsProducts(oi) ==
  Obj([instanceId |-> OrEmpty(Get(oi, "instanceId")),
       slotId |-> OrEmpty(Get(oi, "slotId")),
       productInfo |-> Get(oi, "productInfo")])

orderInfoCancelled(oi) ==
  Obj([instanceId |-> OrEmpty(Get(oi, "instanceId")),
       slotId |-> OrEmpty(Get(oi, "slotId")),
       productInfo |-> Arr(<<>>)])

orderInfoPlaced(oi) ==
  Obj([instanceId |-> OrEmpty(Get(oi, "instanceId")),
       slotId |-> OrEmpty(Get(oi, "slotId")),
       productInfo |-> Get(oi, "productInfo")])

\* message.subscriptionInfo ? message.subscriptionInfo : {}, then its
\* slotsSubscriptionStatus
subscriptionStatus(message) ==
  LET si == Get(message, "subscriptionInfo")
      subscriptionInfo == IF Truthy(si) THEN si ELSE Obj(<<>>)
  IN Get(subscriptionInfo, "slotsSubscriptionStatus")

StDispatch == <<"verify", "parse", "unwrap", "extract", "dispatch">>

\* the two device branches
deviceBranch(name, customerId, modelId, serialNumber, message, hs, tmpl) ==
  IF name \in hs
    THEN Outcome("returned",
                 <<Invoke(name, <<customerId, modelId, serialNumber, message>>)>>,
                 StDispatch, tmpl)
    ELSE missingHandler(name, StDispatch, tmpl)

\* the three order branches; orderInfo is the branch's object literal, whose
\* first read, message.orderInfo.instanceId, throws without an orderInfo
orderBranch(name, orderInfo, customerId, modelId, serialNumber, message, hs, tmpl) ==
  IF name \in hs
    THEN IF Faults(Get(message, "orderInfo"))
           THEN Throw(StDispatch, tmpl)
           ELSE Outcome("returned",
                        <<Invoke(name, <<customerId, modelId, serialNumber,
                                         orderInfo, message>>)>>,
                        StDispatch, tmpl)
    ELSE missingHandler(name, StDispatch, tmpl)

subscriptionBranch(name, customerId, modelId, serialNumber, message, hs, tmpl) ==
  IF name \in hs
    THEN Outcome("returned",
                 <<Invoke(name, <<customerId, modelId, serialNumber,
                                  subscriptionStatus(message), message>>)>>,
                 StDispatch, tmpl)
    ELSE missingHandler(name, StDispatch, tmpl)

\* the if / else-if chain on messageType; a type none of the six equals
\* falls off its end and the callback returns
dispatch(messageType, customerId, modelId, serialNumber, message, hs, tmpl) ==
  IF messageType = Str("DeviceDeregisteredNotification")
    THEN deviceBranch("onDeviceDeregistered", customerId, modelId, serialNumber,
                      message, hs, tmpl)
  ELSE IF messageType = Str("DeviceRegisteredNotification")
    THEN deviceBranch("onDeviceRegistered", customerId, modelId, serialNumber,
                      message, hs, tmpl)
  ELSE IF messageType = Str("ItemShippedNotification")
    THEN orderBranch("onItemShippedNotification", orderInfoShipped(Get(message, "orderInfo")),
                     customerId,
                     modelId, serialNumber, message, hs, tmpl)
  ELSE IF messageType = Str("OrderCancelledNotification")
    THEN orderBranch("onOrderCancelled", orderInfoCancelled(Get(message, "orderInfo")),
                     customerId,
                     modelId, serialNumber, message, hs, tmpl)
  ELSE IF messageType = Str("OrderPlacedNotification")
    THEN orderBranch("onOrderPlaced", orderInfoPlaced(Get(message, "orderInfo")),
                     customerId,
                     modelId, serialNumber, message, hs, tmpl)
  ELSE IF messageType = Str("SubscriptionChangedNotification")
    THEN subscriptionBranch("onSubscriptionChanged", customerId, modelId,
                            serialNumber, message, hs, tmpl)
  ELSE Outcome("returned", <<>>, StDispatch, tmpl)

StExtract == <<"verify", "parse", "unwrap", "extract">>

\* "now parse it": the four reads, none of them guarded
extract(message, hs, tmpl) ==
  LET serialNumber == Path(message, <<"deviceInfo", "deviceIdentifier", "serialNumber">>)
      modelId == Path(message, <<"deviceInfo", "productIdentifier", "modelId">>)
      messageType == Path(message, <<"notificationInfo", "notificationType">>)
      customerId == Path(message, <<"customerInfo", "directedCustomerId">>)
  IN IF serialNumber.fault \/ modelId.fault \/ messageType.fault \/ customerId.fault
       THEN Throw(StExtract, tmpl)
       ELSE dispatch(messageType.val, customerId.val, modelId.val,
                     serialNumber.val, message, hs, tmpl)

StUnwrap == <<"verify", "parse", "unwrap">>

\* the chain with its first two tests exchanged: email before default
unwrapEmailFirst(message, parsed, hs, tmpl) ==
  IF Faults(message) THEN Throw(StUnwrap, tmpl)
  ELSE IF Truthy(AndGet(message, "email", "deviceInfo"))
    THEN extract(Get(message, "email"), hs, tmpl)
  ELSE IF Truthy(AndGet(message, "default", "deviceInfo"))
    THEN extract(Get(message, "default"), hs, tmpl)
  ELSE IF Truthy(AndGet(message, "http", "deviceInfo"))
    THEN extract(Get(message, "http"), hs, tmpl)
  ELSE IF Truthy(AndGet(message, "https", "deviceInfo"))
    THEN extract(Get(message, "https"), hs, tmpl)
  ELSE IF Truthy(AndGet(message, "notificationInfo", "notificationType"))
    THEN IF NotKnown(Get(Get(message, "notificationInfo"), "notificationType"))
           THEN Report("unknown_message",
                       Obj([message |->
                              Get(Get(message, "notificationInfo"), "notificationType")]),
                       StUnwrap, tmpl)
           ELSE extract(message, hs, tmpl)
  ELSE IF "onNonDRSMessage" \in hs
    THEN Outcome("returned", <<Invoke("onNonDRSMessage", <<parsed>>)>>, StUnwrap, tmpl)
  ELSE Report("not_drs", parsed, StUnwrap, tmpl)

\* the chain that picks the transport wrapper, checks the type of a
\* top-level notification, or takes the message for a non-DRS one
unwrap(message, parsed, hs, tmpl) ==
  IF Faults(message) THEN Throw(StUnwrap, tmpl)
  ELSE IF Truthy(AndGet(message, "default", "deviceInfo"))
    THEN extract(Get(message, "default"), hs, tmpl)
  ELSE IF Truthy(AndGet(message, "email", "deviceInfo"))
    THEN extract(Get(message, "email"), hs, tmpl)
  ELSE IF Truthy(AndGet(message, "http", "deviceInfo"))
    THEN extract(Get(message, "http"), hs, tmpl)
  ELSE IF Truthy(AndGet(message, "https", "deviceInfo"))
    THEN extract(Get(message, "https"), hs, tmpl)
  ELSE IF Truthy(AndGet(message, "notificationInfo", "notificationType"))
    THEN IF NotKnown(Get(Get(message, "notificationInfo"), "notificationType"))
           THEN Report("unknown_message",
                       Obj([message |->
                              Get(Get(message, "notificationInfo"), "notificationType")]),
                       StUnwrap, tmpl)
           ELSE extract(message, hs, tmpl)
  ELSE IF "onNonDRSMessage" \in hs
    THEN Outcome("returned", <<Invoke("onNonDRSMessage", <<parsed>>)>>, StUnwrap, tmpl)
  ELSE Report("not_drs", parsed, StUnwrap, tmpl)

StParse == <<"verify", "parse">>

\* the catch block without its return: the report, then the rest of the
\* callback on the initial message = {}
parseMessageNoReturn(parsed, hs, tmpl) ==
  LET r == JSONparse(parsed.Message)
      rest == unwrap(IF r.threw THEN Obj(<<>>) ELSE r.val, parsed, hs, tmpl)
  IN IF r.threw
       THEN Outcome(rest.end,
                    <<Invoke("onError", <<Fresh("invalid_json", r.val)>>)>> \o rest.calls,
                    rest.stages, rest.tmpl)
       ELSE rest

\* try { message = JSON.parse(parsed.Message) } catch(er) { ... }
parseMessage(parsed, hs, tmpl) ==
  LET r == JSONparse(parsed.Message)
  IN IF r.threw THEN Report("invalid_json", r.val, StParse, tmpl)
     ELSE unwrap(r.val, parsed, hs, tmpl)

StConfirm == <<"verify", "confirm">>

\* the branch without the test of the URL: the GET is issued to whatever
\* SubscribeURL holds
confirmUnchecked(parsed, hs, tmpl) ==
  Outcome("requested", <<Invoke("request", <<parsed.SubscribeURL>>)>>, StConfirm, tmpl)

\* the SubscriptionConfirmation branch, up to the outbound GET
confirm(parsed, hs, tmpl) ==
  LET url == IF Truthy(parsed.SubscribeURL) THEN parsed.SubscribeURL ELSE Str("")
  IN IF url = Str("")
       THEN Report("invalid_subscription_request", parsed, StConfirm, tmpl)
       ELSE Outcome("requested", <<Invoke("request", <<url>>)>>, StConfirm, tmpl)

StVerify == <<"verify">>

\* the if(err) block without its return: the report, then the rest of the
\* callback
validateCallbackNoReturn(err, parsed, hs, tmpl) ==
  LET rest == IF parsed.Type = "SubscriptionConfirmation"
                THEN confirm(parsed, hs, tmpl)
                ELSE parseMessage(parsed, hs, tmpl)
  IN IF Truthy(err)
       THEN Outcome(rest.end,
                    <<Invoke("onError", <<Fresh("invalid_signature", err)>>)>> \o rest.calls,
                    rest.stages, rest.tmpl)
       ELSE rest

\* request(...) without the return before it: the GET is issued and the
\* callback goes on to parse the Message
validateCallbackConfirmFallsThrough(err, parsed, hs, tmpl) ==
  LET conf == confirm(parsed, hs, tmpl)
      rest == parseMessage(parsed, hs, tmpl)
  IN IF Truthy(err) THEN Report("invalid_signature", err, StVerify, tmpl)
     ELSE IF parsed.Type = "SubscriptionConfirmation" /\ conf.end = "requested"
       THEN Outcome("requested", conf.calls \o rest.calls, rest.stages, rest.tmpl)
     ELSE IF parsed.Type = "SubscriptionConfirmation" THEN conf
     ELSE rest

\* the body of the callback receiveRequest gives validator.validate
validateCallback(err, parsed, hs, tmpl) ==
  IF Truthy(err) THEN Report("invalid_signature", err, StVerify, tmpl)
  ELSE IF parsed.Type = "SubscriptionConfirmation" THEN confirm(parsed, hs, tmpl)
  ELSE parseMessage(parsed, hs, tmpl)

StResponse == <<"verify", "confirm", "response">>

\* the callback without the test of the status code
confirmCallbackStatusIgnored(err, confirmErr, confirmResponse, confirmBody, tmpl) ==
  IF err # Null
    THEN Report("invalid_subscription_request_response",
                Obj([err |-> confirmErr, resp |-> confirmResponse, body |-> confirmBody]),
                StResponse, tmpl)
  ELSE Outcome("returned", <<>>, StResponse, tmpl)

\* the callback with its condition always true
confirmCallbackAlwaysReports(err, confirmErr, confirmResponse, confirmBody, tmpl) ==
  Report("invalid_subscription_request_response",
         Obj([err |-> confirmErr, resp |-> confirmResponse, body |-> confirmBody]),
         StResponse, tmpl)

\* the body of the callback given to request(); err is the validator
\* callback's parameter, which the condition reads
confirmCallback(err, confirmErr, confirmResponse, confirmBody, tmpl) ==
  IF err # Null
    THEN Report("invalid_subscription_request_response",
                Obj([err |-> confirmErr, resp |-> confirmResponse, body |-> confirmBody]),
                StResponse, tmpl)
  ELSE IF Faults(confirmResponse) THEN Throw(StResponse, tmpl)
  ELSE IF Get(confirmResponse, "statusCode") # Num(HttpOk)
    THEN Report("invalid_subscription_request_response",
                Obj([err |-> confirmErr, resp |-> confirmResponse, body |-> confirmBody]),
                StResponse, tmpl)
  ELSE Outcome("returned", <<>>, StResponse, tmpl)

--------------------------------------------------------------------------
(* validate: verification only. *)

\* handlers and callback both null or undefined; given tells which of the
\* two arguments the caller supplied
isPromise(given) == ~given.handlers /\ ~given.callback

\* how a promise ended
Resolved(value) == [state |-> "fulfilled", value |-> value]
Rejected(reason) == [state |-> "rejected", value |-> reason]

\* the promise path's callback with the verifier's error as the reason
promiseCallbackRawReason(err, parsed) ==
  IF Truthy(err) THEN Rejected(err) ELSE Resolved(parsed)

\* the callback the promise path gives validator.validate
promiseCallback(err, parsed) ==
  IF Truthy(err)
    THEN Rejected([code |-> "invalid_signature",
                   reason |-> errorCodes["invalid_signature"], raw |-> err])
    ELSE Resolved(parsed)

\* the second block of the callback below: the success path
onValidated(parsed, hs, given) ==
  IF given.handlers /\ "onOnlyValidateMessage" \in hs
    THEN <<Invoke("onOnlyValidateMessage", <<parsed>>)>>
  ELSE IF given.callback THEN <<Invoke("callback", <<Null, parsed>>)>>
  ELSE <<>>

\* the callback below handing the plain callback the message it was called
\* with where the source hands it parsed
conventionCallbackEchoes(err, parsed, message, hs, given) ==
  IF Truthy(err) /\ given.handlers /\ "onError" \in hs
    THEN <<Invoke("onError", <<Fresh("invalid_signature", err)>>)>>
  ELSE IF Truthy(err) /\ given.callback
    THEN <<Invoke("callback", <<Fresh("invalid_signature", err), message>>)>>
  ELSE IF given.handlers /\ "onOnlyValidateMessage" \in hs
    THEN <<Invoke("onOnlyValidateMessage", <<parsed>>)>>
  ELSE IF given.callback THEN <<Invoke("callback", <<Null, message>>)>>
  ELSE <<>>

\* the callback the callback convention gives validator.validate: the
\* invocations it makes. The if(err) block returns from its two branches
\* and from nowhere else.
conventionCallback(err, parsed, message, hs, given) ==
  IF Truthy(err) /\ given.handlers /\ "onError" \in hs
    THEN <<Invoke("onError", <<Fresh("invalid_signature", err)>>)>>
  ELSE IF Truthy(err) /\ given.callback
    THEN <<Invoke("callback", <<Fresh("invalid_signature", err), message>>)>>
  ELSE onValidated(parsed, hs, given)

--------------------------------------------------------------------------
(* The inputs: payloads, envelopes, handler sets, collaborator answers. *)

\* a function with the one key k, or with none
Field(k, vs) == {k :> v : v \in vs}
None == {<<>>}

DeviceInfos ==
  { Obj(<<>>),
    Obj([deviceIdentifier |-> Obj([serialNumber |-> Str("S1")])]),
    Obj([deviceIdentifier |-> Obj([serialNumber |-> Str("S1")]),
         productIdentifier |-> Obj([modelId |-> Str("M1")])]) }

NotificationInfos ==
  {Obj(<<>>)} \cup
  { Obj([notificationType |-> Str(ty)]) :
      ty \in {knownMessageTypes[i] : i \in 1..Len(knownMessageTypes)} \cup {"FooBar"} }

CustomerInfos == { Obj([directedCustomerId |-> Str("C1")]) }

OrderInfos ==
  { Obj(<<>>),
    Obj([slotId |-> Str("SL2")]),
    Obj([instanceId |-> Str("I1"), slotId |-> Str("SL1"),
         productInfo |-> Arr(<<Obj([asin |-> Str("A1")])>>)]) }

SubscriptionInfos == { Obj([slotsSubscriptionStatus |-> Obj([SL1 |-> Str("true")])]) }

\* objects shaped like a notification, any part of it present or not
Notifications ==
  { Obj(d @@ n @@ c @@ x) :
      d \in None \cup Field("deviceInfo", DeviceInfos),
      n \in None \cup Field("notificationInfo", NotificationInfos),
      c \in None \cup Field("customerInfo", CustomerInfos),
      x \in None \cup Field("orderInfo", OrderInfos)
                 \cup Field("subscriptionInfo", SubscriptionInfos) }

TransportKeys == <<"default", "email", "http", "https">>

\* a complete notification of type ty
Complete(ty) ==
  Obj([deviceInfo |-> Obj([deviceIdentifier |-> Obj([serialNumber |-> Str("S1")]),
                           productIdentifier |-> Obj([modelId |-> Str("M1")])]),
       notificationInfo |-> Obj([notificationType |-> Str(ty)]),
       customerInfo |-> Obj([directedCustomerId |-> Str("C1")]),
       orderInfo |-> Obj([instanceId |-> Str("I1"), slotId |-> Str("SL1"),
                          productInfo |-> Arr(<<Obj([asin |-> Str("A1")])>>)])])

\* what the other transport keys, and a second key, are tried with
Nested ==
  { Null, Str("text"), Obj(<<>>),
    Obj([notificationInfo |-> Obj([notificationType |-> Str("OrderPlacedNotification")])]),
    Complete("DeviceRegisteredNotification"), Complete("OrderCancelledNotification"),
    Complete("FooBar") }

\* what may sit beside a transport key at the top level
Beside ==
  None \cup
  Field("notificationInfo",
        { Obj([notificationType |-> Str("FooBar")]),
          Obj([notificationType |-> Str("OrderPlacedNotification")]) })

\* what JSON.parse may return: values that are no objects; notifications at
\* the top level; a notification under default; the other transport keys;
\* two transport keys at once; a transport key inside the object under default
Payloads ==
  {Null, Str("text"), Num(1)}
  \cup Notifications
  \cup { Obj(("default" :> p) @@ b) : p \in Notifications, b \in Beside }
  \cup { Obj((TransportKeys[i] :> p) @@ b) :
           i \in 2..Len(TransportKeys), p \in Nested, b \in Beside }
  \cup { Obj((TransportKeys[i] :> p) @@ (TransportKeys[j] :> q)) :
           i \in 1..Len(TransportKeys), j \in 1..Len(TransportKeys),
           p \in Nested, q \in Nested }
  \cup { Obj([default |-> Obj((TransportKeys[i] :> p)
                              @@ Complete("DeviceRegisteredNotification").v)]) :
           i \in 1..Len(TransportKeys), p \in Nested }

Texts ==
  {Malformed("{not json"), Malformed("undefined")} \cup {Json(p) : p \in Payloads}

SubscribeURLs == {Undefined, Str(""), Str("https://sns/confirm")}

Envelopes ==
  { Envelope("Notification", Undefined, t) : t \in Texts }
  \cup { Envelope("UnsubscribeConfirmation", Undefined, Malformed("You have chosen")) }
  \cup { Envelope("SubscriptionConfirmation", u, Malformed("You have chosen")) :
           u \in SubscribeURLs }

\* IHandlers: onError, and of the optional members none, one, all but one
\* or all (a run reads at most one optional member, by its name)
HandlerSets ==
  { {"onError"} \cup hs :
      hs \in {{}, OptionalHandlers}
             \cup {{h} : h \in OptionalHandlers}
             \cup {OptionalHandlers \ {h} : h \in OptionalHandlers} }

\* what validator.validate hands its callback as err: null, or the cause
VerifierErrors ==
  { Obj([message |-> Str("The message signature is invalid.")]),
    Obj([message |-> Str("Certificate could not be retrieved.")]) }

\* what request() hands its callback: (error, response, body)
Responses ==
  { <<Null, Obj([statusCode |-> Num(HttpOk)]), Str("ok")>>,
    <<Null, Obj([statusCode |-> Num(HttpOk + 300)]), Str("error")>>,
    <<Obj([code |-> Str("ECONNREFUSED")]), Undefined, Undefined>>,
    <<Obj([code |-> Str("ESOCKETTIMEDOUT")]), Obj([statusCode |-> Num(HttpOk)]), Undefined>>,
    <<Obj([code |-> Str("EPIPE")]), Obj([statusCode |-> Num(HttpOk + 300)]), Undefined>> }

\* the inputs of overlapping calls: complete notifications of the six
\* types and a subscription confirmation, with no or every optional handler
ConcEnvelopes ==
  { Envelope("Notification", Undefined, Json(Complete(knownMessageTypes[i]))) :
      i \in 1..Len(knownMessageTypes) }
  \cup { Envelope("SubscriptionConfirmation", Str("https://sns/confirm"),
                  Malformed("You have chosen")) }

ConcHandlerSets == { {"onError"}, {"onError"} \cup OptionalHandlers }

\* what validate is called with: an envelope as an object, or as the JSON
\* text of one
Text(envelope) == [text |-> envelope]
IsText(message) == "text" \in DOMAIN message
ValidateMessages ==
  LET es == { Envelope("Notification", Undefined,
                       Json(Complete("DeviceRegisteredNotification"))),
              Envelope("SubscriptionConfirmation", Str("https://sns/confirm"),
                       Malformed("You have chosen")) }
  IN es \cup {Text(e) : e \in es}

\* the arguments validate may be called with beside the message: no
\* handler set or one with any of the two members validate reads, and a
\* callback or none
ValidateHandlers == {"onError", "onOnlyValidateMessage"}
ValidateArguments ==
  { [given |-> [handlers |-> FALSE, callback |-> cb], hs |-> {}] : cb \in BOOLEAN }
  \cup { [given |-> [handlers |-> TRUE, callback |-> cb], hs |-> hs] :
           cb \in BOOLEAN, hs \in SUBSET ValidateHandlers }

\* what validator.validate hands its callback for a message: (null, the
\* envelope as an object), or (the cause, undefined)
verify(message) ==
  { <<Null, IF IsText(message) THEN message.text ELSE message>> }
  \cup { <<e, Undefined>> : e \in VerifierErrors }

--------------------------------------------------------------------------
(* The state machine. *)

VARIABLES
  pc,                  \* per call: idle, validating, requesting, returned, threw;
                       \* checking while validate waits for the validator
  body,                \* per call: the envelope receiveRequest was given
  handlers,            \* per call: the handler set it was given
  err,                 \* per call: the err its validator callback received
  log,                 \* per call: the invocations made so far, in order
  stages,              \* per call: the pipeline stages gone through
  resp,                \* per call: what request() handed its callback
  given,               \* per call of validate: which arguments were supplied
  promise,             \* per call of validate: the promise it returned
  missingHandlerError  \* the module-level record, shared by all calls

vars == <<pc, body, handlers, err, log, stages, resp, given, promise,
          missingHandlerError>>

NoBody == Envelope("", Undefined, Malformed(""))

\* no answer of the HTTP client yet
NoResponse == <<Undefined, Undefined, Undefined>>

\* the promise of a call that returned none, of one not settled yet
NoPromise == [state |-> "none"]
Pending == [state |-> "pending"]

Init ==
  /\ pc = [c \in Calls |-> "idle"]
  /\ body = [c \in Calls |-> NoBody]
  /\ handlers = [c \in Calls |-> {}]
  /\ err = [c \in Calls |-> Undefined]
  /\ log = [c \in Calls |-> <<>>]
  /\ stages = [c \in Calls |-> <<>>]
  /\ resp = [c \in Calls |-> NoResponse]
  /\ given = [c \in Calls |-> [handlers |-> TRUE, callback |-> FALSE]]
  /\ promise = [c \in Calls |-> NoPromise]
  /\ missingHandlerError = missingHandlerErrorInit

\* receiveRequest(b, hs), b and hs drawn from bs and hss: hands the envelope
\* to validator.validate and returns
receiveRequest(c, bs, hss) ==
  /\ pc[c] = "idle"
  /\ \E b \in bs, hs \in hss :
       /\ body' = [body EXCEPT ![c] = b]
       /\ handlers' = [handlers EXCEPT ![c] = hs]
  /\ pc' = [pc EXCEPT ![c] = "validating"]
  /\ UNCHANGED <<err, log, stages, resp, given, promise, missingHandlerError>>

\* a callback ran to its end with outcome o
Ran(c, o) ==
  /\ log' = [log EXCEPT ![c] = @ \o o.calls]
  /\ stages' = [stages EXCEPT ![c] = o.stages]
  /\ pc' = [pc EXCEPT ![c] = IF o.end = "requested" THEN "requesting" ELSE o.end]
  /\ missingHandlerError' = o.tmpl

\* the validator answers call c: its callback runs to completion
ValidatorCallback(c) ==
  /\ pc[c] = "validating"
  /\ \E e \in {Null} \cup VerifierErrors :
       /\ err' = [err EXCEPT ![c] = e]
       /\ Ran(c, validateCallback(e, body[c], handlers[c], missingHandlerError))
  /\ UNCHANGED <<body, handlers, resp, given, promise>>

\* the HTTP client answers call c's confirmation request
RequestCallback(c) ==
  /\ pc[c] = "requesting"
  /\ \E r \in Responses :
       /\ resp' = [resp EXCEPT ![c] = r]
       /\ Ran(c, confirmCallback(err[c], r[1], r[2], r[3], missingHandlerError))
  /\ UNCHANGED <<body, handlers, err, given, promise>>

\* the first call slot: one dispatch call, over all the inputs
Solo == CHOOSE c \in Calls : \A d \in Calls : c <= d

Next ==
  \/ receiveRequest(Solo, Envelopes, HandlerSets)
  \/ ValidatorCallback(Solo)
  \/ RequestCallback(Solo)

Spec == Init /\ [][Next]_vars

\* overlapping dispatch calls
NextConc ==
  \E c \in Calls :
    \/ receiveRequest(c, ConcEnvelopes, ConcHandlerSets)
    \/ ValidatorCallback(c)
    \/ RequestCallback(c)

SpecConc == Init /\ [][NextConc]_vars

\* validate(m, hs, callback), drawn from ValidateMessages and
\* ValidateArguments: hands the message to validator.validate and returns,
\* a pending promise on the promise path and nothing otherwise
validate(c) ==
  /\ pc[c] = "idle"
  /\ \E m \in ValidateMessages, a \in ValidateArguments :
       /\ body' = [body EXCEPT ![c] = m]
       /\ handlers' = [handlers EXCEPT ![c] = a.hs]
       /\ given' = [given EXCEPT ![c] = a.given]
       /\ promise' = [promise EXCEPT ![c] = IF isPromise(a.given) THEN Pending ELSE NoPromise]
  /\ pc' = [pc EXCEPT ![c] = "checking"]
  /\ UNCHANGED <<err, log, stages, resp, missingHandlerError>>

\* the validator answers a call of the promise path
PromiseCallback(c) ==
  /\ pc[c] = "checking" /\ isPromise(given[c])
  /\ \E v \in verify(body[c]) :
       /\ err' = [err EXCEPT ![c] = v[1]]
       /\ promise' = [promise EXCEPT ![c] = promiseCallback(v[1], v[2])]
  /\ pc' = [pc EXCEPT ![c] = "returned"]
  /\ UNCHANGED <<body, handlers, log, stages, resp, given, missingHandlerError>>

\* the validator answers a call of the callback convention
ConventionCallback(c) ==
  /\ pc[c] = "checking" /\ ~isPromise(given[c])
  /\ \E v \in verify(body[c]) :
       /\ err' = [err EXCEPT ![c] = v[1]]
       /\ log' = [log EXCEPT ![c] =
                    @ \o conventionCallback(v[1], v[2], body[c], handlers[c], given[c])]
  /\ pc' = [pc EXCEPT ![c] = "returned"]
  /\ UNCHANGED <<body, handlers, stages, resp, given, promise, missingHandlerError>>

\* one call of validate at a time
NextValidate ==
  \/ validate(Solo)
  \/ PromiseCallback(Solo)
  \/ ConventionCallback(Solo)

SpecValidate == Init /\ [][NextValidate]_vars

--------------------------------------------------------------------------
(* Vocabulary of the properties. *)

\* the validator has answered call c
Answered(c) == pc[c] \notin {"idle", "validating"}

\* ... and the envelope passed verification
Verified(c) == Answered(c) /\ ~Truthy(err[c])

\* call c has ended: its last callback returned, or threw
Ended(c) == pc[c] \in {"returned", "threw"}

IsConfirmation(c) == body[c].Type = "SubscriptionConfirmation"

\* the parsed payload of call c's envelope, when its Message is a JSON text
HasPayload(c) == body[c].Message.wellFormed
Payload(c) == body[c].Message.value

\* the invocations of handler-set members other than onError, the error
\* reports, and the outbound requests of call c
IsHandlerCall(e) == e.h \in OptionalHandlers
IsReport(e) == e.h = "onError"
IsRequest(e) == e.h = "request"
Handled(c) == Cardinality({k \in DOMAIN log[c] : IsHandlerCall(log[c][k])})
Reported(c) == Cardinality({k \in DOMAIN log[c] : IsReport(log[c][k])})
Requested(c) == Cardinality({k \in DOMAIN log[c] : IsRequest(log[c][k])})

\* the ErrorRecord an error report delivered, as it was at the call and as
\* the callback's copy of the reference reads now
Delivered(e) == e.args[1].rec
Held(e) == IF e.args[1].shared THEN missingHandlerError ELSE e.args[1].rec

\* x is an object with a field k
Has(x, k) == x.t = "object" /\ k \in DOMAIN x.v

\* the transport keys under which p nests an object with device info
Wrapping(p) ==
  {i \in 1..Len(TransportKeys) : Has(Get(p, TransportKeys[i]), "deviceInfo")}

\* the notification the unwrapper is to select from payload p
Selected(p) ==
  IF Wrapping(p) = {} THEN p
  ELSE Get(p, TransportKeys[CHOOSE i \in Wrapping(p) : \A j \in Wrapping(p) : i <= j])

\* the notification-info discriminator of n
Discriminator(n) == Get(Get(n, "notificationInfo"), "notificationType")

\* the handler of the i-th known notification type
HandlerNames ==
  << "onDeviceDeregistered", "onDeviceRegistered", "onItemShippedNotification",
     "onOrderCancelled", "onOrderPlaced", "onSubscriptionChanged" >>

\* the extra argument of the i-th type's handler, as a sequence
ExpectedOrderInfo(n, products) ==
  LET oi == Get(n, "orderInfo")
      dflt(x) == IF x = Undefined THEN Str("") ELSE x
  IN Obj([instanceId |-> dflt(Get(oi, "instanceId")),
          slotId |-> dflt(Get(oi, "slotId")),
          productInfo |-> products])

ExpectedExtra(i, n) ==
  CASE knownMessageTypes[i] \in {"DeviceDeregisteredNotification",
                                 "DeviceRegisteredNotification"} -> <<>>
    [] knownMessageTypes[i] = "OrderCancelledNotification" ->
         <<ExpectedOrderInfo(n, Arr(<<>>))>>
    [] knownMessageTypes[i] \in {"ItemShippedNotification", "OrderPlacedNotification"} ->
         <<ExpectedOrderInfo(n, Get(Get(n, "orderInfo"), "productInfo"))>>
    [] OTHER -> <<Get(Get(n, "subscriptionInfo"), "slotsSubscriptionStatus")>>

ExpectedArgs(i, n) ==
  << Get(Get(n, "customerInfo"), "directedCustomerId"),
     Get(Get(Get(n, "deviceInfo"), "productIdentifier"), "modelId"),
     Get(Get(Get(n, "deviceInfo"), "deviceIdentifier"), "serialNumber") >>
  \o ExpectedExtra(i, n) \o <<n>>

\* call c is a verified Notification envelope that has ended and whose
\* payload is classified as the i-th known type
ClassifiedAs(c, i) ==
  /\ Verified(c) /\ Ended(c)
  /\ body[c].Type = "Notification"
  /\ HasPayload(c)
  /\ Discriminator(Selected(Payload(c))) = Str(knownMessageTypes[i])

--------------------------------------------------------------------------
(* Properties. *)

\* C1: a dispatch call that has run to its end made exactly one terminal
\* action: one handler invocation or one error report (and no request), or,
\* for a verified confirmation envelope, one confirmation request with no
\* handler invocation (or the one error report that replaces it); and no
\* handler is invoked after an error report.
C1_OneTerminalAction ==
  \A c \in Calls : pc[c] = "returned" =>
    /\ IF Verified(c) /\ IsConfirmation(c)
         THEN /\ Handled(c) = 0
              /\ \/ Requested(c) = 1 /\ Reported(c) <= 1
                 \/ Requested(c) = 0 /\ Reported(c) = 1
         ELSE /\ Handled(c) + Reported(c) = 1
              /\ Requested(c) = 0
    /\ \A j, k \in DOMAIN log[c] :
         j < k /\ IsReport(log[c][j]) => ~IsHandlerCall(log[c][k])

\* C2: for an envelope that fails verification the call makes exactly one
\* invocation: onError with a record of code invalid_signature carrying the
\* verifier's error; no handler, no request, no throw.
C2_InvalidSignature ==
  \A c \in Calls : Answered(c) /\ Truthy(err[c]) =>
    /\ pc[c] = "returned"
    /\ log[c] = <<Invoke("onError",
                         <<[shared |-> FALSE,
                            rec |-> [code |-> "invalid_signature",
                                     reason |-> errorCodes["invalid_signature"],
                                     raw |-> err[c]]]>>)>>

\* C2's case: a complete notification, every handler supplied, verification failed
C2_Witness ==
  \E c \in Calls :
    /\ Answered(c) /\ err[c] \in VerifierErrors
    /\ body[c].Message = Json(Complete("OrderPlacedNotification"))
    /\ handlers[c] = {"onError"} \cup OptionalHandlers
    /\ Reported(c) = 1

\* C3: a verified Notification whose payload is classified as a known type,
\* with that type's handler supplied, ends with exactly one invocation: that
\* handler, with (customerId, modelId, serialNumber, [extra], message).
C3_HandlerInvoked ==
  \A c \in Calls : \A i \in 1..Len(knownMessageTypes) :
    ClassifiedAs(c, i) /\ HandlerNames[i] \in handlers[c] =>
      log[c] = <<Invoke(HandlerNames[i], ExpectedArgs(i, Selected(Payload(c))))>>

\* C4: a verified Notification whose payload is classified as a known type,
\* without that type's handler, ends with exactly one invocation: onError,
\* with code missing_handler and raw.handler naming the absent handler.
C4_MissingHandler ==
  \A c \in Calls : \A i \in 1..Len(knownMessageTypes) :
    ClassifiedAs(c, i) /\ HandlerNames[i] \notin handlers[c] =>
      /\ Len(log[c]) = 1
      /\ IsReport(log[c][1])
      /\ Delivered(log[c][1]).code = "missing_handler"
      /\ Delivered(log[c][1]).raw.handler = HandlerNames[i]

\* C5: the record a call's missing_handler report delivered names that
\* call's own missing handler, also after other calls have reported.
C5_ReportsIndependent ==
  \A c \in Calls : \A i \in 1..Len(knownMessageTypes) : \A k \in DOMAIN log[c] :
    /\ ClassifiedAs(c, i)
    /\ IsReport(log[c][k])
    /\ Delivered(log[c][k]).code = "missing_handler"
    => Held(log[c][k]).raw.handler = HandlerNames[i]

\* what of an invocation the comparison of two runs looks at: the handler
\* and its arguments, or the error code
Digest(e) ==
  IF IsReport(e) THEN <<e.h, Delivered(e).code>>
  ELSE IF e.h \in DomainHandlers THEN <<e.h, e.args>>
  ELSE <<e.h>>

Digests(calls) == [k \in DOMAIN calls |-> Digest(calls[k])]

\* C6: a verified envelope whose Message is {"default": P}, P containing
\* device info, ends as the envelope whose Message is P ends: the same
\* invocations (handler and arguments, or error code), the same way.
C6_DefaultWrapperTransparent ==
  \A c \in Calls :
    /\ Verified(c) /\ Ended(c) /\ body[c].Type = "Notification" /\ HasPayload(c)
    /\ Payload(c).t = "object"
    /\ DOMAIN Payload(c).v = {"default"}
    /\ Has(Get(Payload(c), "default"), "deviceInfo")
    => LET direct == validateCallback(
                       Null, [body[c] EXCEPT !.Message = Json(Get(Payload(c), "default"))],
                       handlers[c], missingHandlerErrorInit)
       IN /\ pc[c] = direct.end
          /\ Digests(log[c]) = Digests(direct.calls)

\* the six known notification types, as discriminator values
KnownTypes == {Str(knownMessageTypes[i]) : i \in 1..Len(knownMessageTypes)}

\* the payload of call c carries a discriminator outside the known types
UnknownDiscriminator(c) ==
  /\ Verified(c) /\ Ended(c) /\ body[c].Type = "Notification" /\ HasPayload(c)
  /\ Has(Get(Payload(c), "notificationInfo"), "notificationType")
  /\ Discriminator(Payload(c)) \notin KnownTypes

UnknownMessageReported(c) ==
  /\ pc[c] = "returned"
  /\ Len(log[c]) = 1
  /\ IsReport(log[c][1])
  /\ Delivered(log[c][1]).code = "unknown_message"
  /\ Delivered(log[c][1]).raw = Obj([message |-> Discriminator(Payload(c))])

C8_NonDRS ==
  \A c \in Calls :
    /\ Verified(c) /\ Ended(c) /\ body[c].Type = "Notification" /\ HasPayload(c)
    /\ Wrapping(Payload(c)) = {}
    /\ ~Has(Get(Payload(c), "notificationInfo"), "notificationType")
    => IF "onNonDRSMessage" \in handlers[c]
         THEN log[c] = <<Invoke("onNonDRSMessage", <<body[c]>>)>>
         ELSE log[c] = <<Invoke("onError",
                                <<[shared |-> FALSE,
                                   rec |-> [code |-> "not_drs",
                                            reason |-> errorCodes["not_drs"],
                                            raw |-> body[c]]]>>)>>

\* C9: a verified envelope that is no confirmation and whose Message is no
\* JSON text ends with exactly one invocation, onError with code
\* invalid_json, and never entered the unwrapping stage.
C9_InvalidJson ==
  \A c \in Calls :
    Verified(c) /\ ~IsConfirmation(c) /\ ~HasPayload(c) =>
      /\ pc[c] = "returned"
      /\ Len(log[c]) = 1
      /\ IsReport(log[c][1])
      /\ Delivered(log[c][1]).code = "invalid_json"
      /\ \A k \in DOMAIN stages[c] : stages[c][k] # "unwrap"

\* C9's case: a Notification with a malformed Message, onNonDRSMessage supplied
C9_Witness ==
  \E c \in Calls :
    /\ Verified(c) /\ body[c].Type = "Notification"
    /\ body[c].Message = Malformed("{not json")
    /\ "onNonDRSMessage" \in handlers[c]
    /\ stages[c] = StParse
    /\ Reported(c) = 1

\* C10: no callback of a dispatch call on a verified envelope ends by
\* throwing.
C10_NeverThrows ==
  \A c \in Calls : Verified(c) => pc[c] # "threw"

--------------------------------------------------------------------------

\* the order of the stages on the two branches of the pipeline
ConfirmOrder == <<"verify", "confirm", "response">>
DispatchOrder == <<"verify", "parse", "unwrap", "extract", "dispatch">>

IsPrefix(s, t) == Len(s) <= Len(t) /\ \A k \in DOMAIN s : s[k] = t[k]

\* the error codes of the confirm branch
ConfirmCodes == {"invalid_subscription_request", "invalid_subscription_request_response"}

\* the codes of the error reports call c has made
ReportedCodes(c) ==
  {Delivered(log[c][k]).code : k \in {j \in DOMAIN log[c] : IsReport(log[c][j])}}

\* C11: nothing is invoked, reported or requested before the validator has
\* answered; the stages gone through then start with verify and follow the
\* confirm branch or the parse, unwrap, extract, dispatch branch in order;
\* and the two branches exclude each other: a call that issued the
\* confirmation request invokes no handler and reports nothing but the
\* confirm branch's errors, and a verified confirmation envelope never gets
\* a handler invocation or an error of the other branch.
C11_StepOrder ==
  \A c \in Calls :
    /\ ~Answered(c) => log[c] = <<>> /\ stages[c] = <<>>
    /\ Answered(c) =>
         /\ stages[c] # <<>>
         /\ IsPrefix(stages[c], ConfirmOrder) \/ IsPrefix(stages[c], DispatchOrder)
    /\ Requested(c) > 0 \/ (Verified(c) /\ IsConfirmation(c)) =>
         /\ Handled(c) = 0
         /\ ReportedCodes(c) \subseteq ConfirmCodes
         /\ IsPrefix(stages[c], ConfirmOrder)
    /\ Requested(c) = 0 /\ ~(Verified(c) /\ IsConfirmation(c)) =>
         ReportedCodes(c) \cap ConfirmCodes = {}

\* C11's case: a confirmation whose request was issued and answered, and
\* nothing of the other branch ran
C11_Witness ==
  \E c \in Calls :
    /\ Verified(c) /\ IsConfirmation(c)
    /\ pc[c] = "returned"
    /\ stages[c] = ConfirmOrder
    /\ Requested(c) = 1

\* C12: a verified SubscriptionConfirmation whose SubscribeURL is missing or
\* empty gets exactly one report through onError, with code
\* invalid_subscription_request, and no outbound request is issued.
C12_MissingSubscribeURL ==
  \A c \in Calls :
    Verified(c) /\ IsConfirmation(c) /\ ~Truthy(body[c].SubscribeURL) =>
      /\ pc[c] = "returned"
      /\ Requested(c) = 0
      /\ Len(log[c]) = 1
      /\ IsReport(log[c][1])
      /\ Delivered(log[c][1]).code = "invalid_subscription_request"
      /\ Delivered(log[c][1]).reason = errorCodes["invalid_subscription_request"]
      /\ Delivered(log[c][1]).raw = body[c]

\* C12's case, with the URL present and empty
C12_Witness ==
  \E c \in Calls :
    /\ Verified(c) /\ IsConfirmation(c)
    /\ body[c].SubscribeURL = Str("")
    /\ Reported(c) = 1

\* call c's confirmation request has been answered; what the HTTP client
\* handed the callback
Responded(c) == resp[c] # NoResponse
ConfirmErr(c) == resp[c][1]
ConfirmResponse(c) == resp[c][2]
ConfirmBody(c) == resp[c][3]

\* the log of call c is the request followed by one report of
\* invalid_subscription_request_response with the error, response and body
ResponseReported(c) ==
  /\ pc[c] = "returned"
  /\ Len(log[c]) = 2
  /\ IsRequest(log[c][1])
  /\ IsReport(log[c][2])
  /\ Delivered(log[c][2]) =
       [code |-> "invalid_subscription_request_response",
        reason |-> errorCodes["invalid_subscription_request_response"],
        raw |-> Obj([err |-> ConfirmErr(c), resp |-> ConfirmResponse(c),
                     body |-> ConfirmBody(c)])]

\* C13: when the confirmation request of a verified SubscriptionConfirmation
\* is answered with a response whose status code is not 200, the call
\* reports invalid_subscription_request_response through onError once, with
\* the error, the response and the body in raw.
C13_Non200Reported ==
  \A c \in Calls :
    /\ Verified(c) /\ IsConfirmation(c) /\ Responded(c)
    /\ Has(ConfirmResponse(c), "statusCode")
    /\ Get(ConfirmResponse(c), "statusCode") # Num(200)
    => ResponseReported(c)

\* C13's case: a response of status 500 and no transport error
C13_Witness ==
  \E c \in Calls :
    /\ Verified(c) /\ IsConfirmation(c) /\ Responded(c)
    /\ ConfirmErr(c) = Null
    /\ Get(ConfirmResponse(c), "statusCode") = Num(500)
    /\ Reported(c) = 1

\* C14: when the confirmation request of a verified SubscriptionConfirmation
\* ends with a transport error (the callback's error is not null, with or
\* without a response), the call reports
\* invalid_subscription_request_response through onError once, with the
\* error, the response and the body in raw.
C14_TransportErrorReported ==
  \A c \in Calls :
    Verified(c) /\ IsConfirmation(c) /\ Responded(c) /\ ConfirmErr(c) # Null
    => ResponseReported(c)

\* C15: a verified SubscriptionConfirmation with a non-empty SubscribeURL
\* issues exactly one outbound request, to that URL, and never invokes a
\* domain handler or onNonDRSMessage; when the request is answered with no
\* error and status 200 nothing of the handler set is invoked at all.
C15_ConfirmationFrame ==
  \A c \in Calls :
    Verified(c) /\ IsConfirmation(c) /\ Truthy(body[c].SubscribeURL) =>
      /\ Requested(c) = 1
      /\ log[c][1] = Invoke("request", <<body[c].SubscribeURL>>)
      /\ Handled(c) = 0
      /\ ( /\ Responded(c)
           /\ ConfirmErr(c) = Null
           /\ Has(ConfirmResponse(c), "statusCode")
           /\ Get(ConfirmResponse(c), "statusCode") = Num(200)
           => pc[c] = "returned" /\ Len(log[c]) = 1 )

\* C15's case: the request answered with 200 and no error
C15_Witness ==
  \E c \in Calls :
    /\ Verified(c) /\ IsConfirmation(c) /\ Responded(c)
    /\ ConfirmErr(c) = Null
    /\ Get(ConfirmResponse(c), "statusCode") = Num(200)
    /\ pc[c] = "returned"
    /\ log[c] = <<Invoke("request", <<body[c].SubscribeURL>>)>>

\* the handlers of the three order notifications
OrderHandlers == {"onItemShippedNotification", "onOrderCancelled", "onOrderPlaced"}

\* the invocations of order handlers in the log of call c
OrderCalls(c) == {k \in DOMAIN log[c] : log[c][k].h \in OrderHandlers}

\* the notification an order handler was given (its last argument), the
\* orderInfo of that notification, and the OrderInfo built from it
Notified(e) == e.args[Len(e.args)]
InputOrderInfo(e) == Get(Notified(e), "orderInfo")
BuiltOrderInfo(e) == e.args[Len(e.args) - 1]

\* C16: the OrderInfo handed to an order handler has instanceId and slotId
\* equal to the notification's, or "" where the notification has none; its
\* productInfo is the empty list for onOrderCancelled, whatever the
\* notification carries, and the notification's productInfo unchanged for
\* onItemShippedNotification and onOrderPlaced.
C16_OrderInfoBuilt ==
  \A c \in Calls : \A k \in OrderCalls(c) :
    LET e == log[c][k]
    IN /\ Notified(e) = Selected(Payload(c))
       /\ BuiltOrderInfo(e) =
            ExpectedOrderInfo(Notified(e),
                              IF e.h = "onOrderCancelled" THEN Arr(<<>>)
                              ELSE Get(InputOrderInfo(e), "productInfo"))

\* C16's case: onOrderCancelled invoked for a notification that carries
\* products
C16_Witness ==
  \E c \in Calls : \E k \in OrderCalls(c) :
    /\ log[c][k].h = "onOrderCancelled"
    /\ Get(InputOrderInfo(log[c][k]), "productInfo") = Arr(<<Obj([asin |-> Str("A1")])>>)
    /\ Get(BuiltOrderInfo(log[c][k]), "productInfo") = Arr(<<>>)

\* the defaults of C16 at work: an order handler invoked for a notification
\* whose orderInfo has no instanceId
C16_DefaultsReached ==
  \E c \in Calls : \E k \in OrderCalls(c) :
    /\ Get(InputOrderInfo(log[c][k]), "instanceId") = Undefined
    /\ Get(InputOrderInfo(log[c][k]), "slotId") = Str("SL2")

--------------------------------------------------------------------------
(* validate. *)

\* the validator has answered call c of validate, by an error or by none
ValidateFailed(c) == pc[c] = "returned" /\ err[c] # Null
ValidateSucceeded(c) == pc[c] = "returned" /\ err[c] = Null

\* call c of validate was given a handler set or a callback
Convention(c) == given[c].handlers \/ given[c].callback

\* what call c of validate was given
HasOnError(c) == given[c].handlers /\ "onError" \in handlers[c]
HasOnOnlyValidateMessage(c) == given[c].handlers /\ "onOnlyValidateMessage" \in handlers[c]
HasCallback(c) == given[c].callback

\* the envelope the message of call c denotes
VerifiedEnvelope(c) == IF "text" \in DOMAIN body[c] THEN body[c].text ELSE body[c]

\* the ErrorRecord of call c's verification failure
SignatureError(c) ==
  [code |-> "invalid_signature",
   reason |-> errorCodes["invalid_signature"],
   raw |-> err[c]]

\* the four invocations validate has to choose from
ErrorToOnError(c) ==
  [h |-> "onError", args |-> <<[shared |-> FALSE, rec |-> SignatureError(c)]>>]
ErrorToCallback(c) ==
  [h |-> "callback", args |-> <<[shared |-> FALSE, rec |-> SignatureError(c)], body[c]>>]
EnvelopeToHandler(c) ==
  [h |-> "onOnlyValidateMessage", args |-> <<VerifiedEnvelope(c)>>]
EnvelopeToCallback(c) ==
  [h |-> "callback", args |-> <<Null, VerifiedEnvelope(c)>>]

\* C17, as stated: in the callback convention a failure calls onError with
\* the invalid_signature record if onError is present, else the callback
\* with (error, message); a success calls onOnlyValidateMessage with the
\* verified envelope if present, else the callback with (null, envelope);
\* and in each case exactly one of them is called, once.
C17_ExactlyOneCalled ==
  \A c \in Calls :
    /\ ValidateFailed(c) /\ Convention(c) =>
         log[c] = IF HasOnError(c) THEN <<ErrorToOnError(c)>> ELSE <<ErrorToCallback(c)>>
    /\ ValidateSucceeded(c) /\ Convention(c) =>
         log[c] = IF HasOnOnlyValidateMessage(c) THEN <<EnvelopeToHandler(c)>>
                  ELSE <<EnvelopeToCallback(c)>>

\* C17, amended: the target of a case is called, once and alone, whenever
\* the caller supplied it; a success with neither of its targets supplied
\* calls nothing; and no call of validate makes more than one invocation.
C17_SuppliedTargetCalled ==
  \A c \in Calls :
    /\ ValidateFailed(c) /\ HasOnError(c) => log[c] = <<ErrorToOnError(c)>>
    /\ ValidateFailed(c) /\ ~HasOnError(c) /\ HasCallback(c) =>
         log[c] = <<ErrorToCallback(c)>>
    /\ ValidateSucceeded(c) /\ HasOnOnlyValidateMessage(c) =>
         log[c] = <<EnvelopeToHandler(c)>>
    /\ ValidateSucceeded(c) /\ ~HasOnOnlyValidateMessage(c) /\ HasCallback(c) =>
         log[c] = <<EnvelopeToCallback(c)>>
    /\ ValidateSucceeded(c) /\ ~HasOnOnlyValidateMessage(c) /\ ~HasCallback(c) =>
         log[c] = <<>>
    /\ Len(log[c]) <= 1

\* C17's case: a message given as text verified, with a handler set that
\* has no onOnlyValidateMessage and a callback, which gets the envelope
C17_Witness ==
  \E c \in Calls :
    /\ ValidateSucceeded(c)
    /\ given[c] = [handlers |-> TRUE, callback |-> TRUE]
    /\ handlers[c] = {"onError"}
    /\ "text" \in DOMAIN body[c]
    /\ log[c] = <<EnvelopeToCallback(c)>>

\* C18: a call of validate without handler set and callback returns a
\* promise, pending until the validator answers; it is then fulfilled with
\* the verified envelope exactly when verification succeeded and rejected
\* with the invalid_signature record exactly when it failed; the callback
\* returns in both cases, nothing is invoked, and a settled promise stays
\* as it is.
C18_PromiseSettled ==
  \A c \in Calls :
    /\ pc[c] = "checking" /\ ~Convention(c) => promise[c] = [state |-> "pending"]
    /\ pc[c] \in {"checking", "returned"} /\ ~Convention(c) => log[c] = <<>>
    /\ ValidateSucceeded(c) /\ ~Convention(c) =>
         promise[c] = [state |-> "fulfilled", value |-> VerifiedEnvelope(c)]
    /\ ValidateFailed(c) /\ ~Convention(c) =>
         promise[c] = [state |-> "rejected", value |-> SignatureError(c)]
    /\ Convention(c) => promise[c] = [state |-> "none"]

\* C18's case: the promise rejected
C18_Witness ==
  \E c \in Calls :
    /\ ValidateFailed(c) /\ ~Convention(c)
    /\ promise[c].state = "rejected"
    /\ promise[c].value.code = "invalid_signature"

\* C19: in the callback convention a verification failure leads to no
\* success-path invocation: onOnlyValidateMessage is not called, and the
\* callback is not called with a null error.
C19_NoSuccessPathOnFailure ==
  \A c \in Calls :
    ValidateFailed(c) /\ Convention(c) =>
      \A k \in DOMAIN log[c] :
        /\ log[c][k].h # "onOnlyValidateMessage"
        /\ ~(log[c][k].h = "callback" /\ log[c][k].args[1] = Null)

--------------------------------------------------------------------------
(* The unwrapper. *)

\* call c ran the unwrapper on an object: a verified notification envelope
\* whose Message is the JSON text of one, and whose callback has ended
Unwrapped(c) ==
  /\ Verified(c) /\ ~IsConfirmation(c) /\ Ended(c)
  /\ HasPayload(c) /\ Payload(c).t = "object"

\* the invocations of domain handlers in the log of call c
DomainCalls(c) == {k \in DOMAIN log[c] : log[c][k].h \in DomainHandlers}

\* the handler of the notification type ty, "" when ty is no known type
HandlerOf(ty) ==
  IF \E i \in DOMAIN knownMessageTypes : Str(knownMessageTypes[i]) = ty
    THEN HandlerNames[CHOOSE i \in DOMAIN knownMessageTypes : Str(knownMessageTypes[i]) = ty]
    ELSE ""

\* the outcomes of classifying the top-level payload directly
DirectCodes == {"unknown_message", "not_drs"}

\* C20: the notification the pipeline works on is the object under the
\* first of default, email, http, https that holds an object with a
\* deviceInfo, and the top-level payload when there is none. A domain
\* handler gets that notification, exactly as it is (one level down at
\* most), and is the handler of its type; a missing_handler report names the
\* handler of its type; with such a nested object the payload is never
\* classified directly (no unknown_message, no not_drs, no onNonDRSMessage,
\* whatever notificationInfo the top level has) and the call goes on to
\* extraction; without one the call stops in the unwrapper unless the top
\* level has a known notification type.
C20_UnwrapPriority ==
  \A c \in Calls :
    Unwrapped(c) =>
      LET n == Selected(Payload(c))
      IN /\ \A k \in DomainCalls(c) :
              /\ Notified(log[c][k]) = n
              /\ log[c][k].h = HandlerOf(Discriminator(n))
         /\ \A k \in DOMAIN log[c] :
              IsReport(log[c][k]) /\ Delivered(log[c][k]).code = "missing_handler"
              => Delivered(log[c][k]).raw.handler = HandlerOf(Discriminator(n))
         /\ Wrapping(Payload(c)) # {} =>
              /\ ReportedCodes(c) \cap DirectCodes = {}
              /\ \A k \in DOMAIN log[c] : log[c][k].h # "onNonDRSMessage"
              /\ IsPrefix(<<"verify", "parse", "unwrap", "extract">>, stages[c])
         /\ Wrapping(Payload(c)) = {} /\ HandlerOf(Discriminator(Payload(c))) = "" =>
              stages[c] = <<"verify", "parse", "unwrap">>

\* C20's case: an object with a deviceInfo under default and another under
\* email, and the handler of the first one's type invoked with it
C20_Witness ==
  \E c \in Calls :
    /\ Unwrapped(c)
    /\ {1, 2} \subseteq Wrapping(Payload(c))
    /\ Get(Payload(c), "default") # Get(Payload(c), "email")
    /\ \E k \in DomainCalls(c) : Notified(log[c][k]) = Get(Payload(c), "default")

\* a wrapper inside the wrapper is left in place: the handler gets the
\* object under default, which holds a notification under email
C20_OneLevelReached ==
  \E c \in Calls :
    /\ Unwrapped(c)
    /\ Wrapping(Payload(c)) = {1}
    /\ Wrapping(Get(Payload(c), "default")) = {2}
    /\ \E k \in DomainCalls(c) : Notified(log[c][k]) = Get(Payload(c), "default")

\* a notification under https beside a top-level notificationInfo of
\* another type: the handler of the nested one's type is invoked
C20_PrecedenceReached ==
  \E c \in Calls :
    /\ Unwrapped(c)
    /\ Wrapping(Payload(c)) = {4}
    /\ Discriminator(Payload(c)) = Str("FooBar")
    /\ \E k \in DomainCalls(c) : log[c][k].h = "onOrderCancelled"

====
